---- MODULE Spec2Model ----
(***************************************************************************)
(* The chain indexer of core/plugin.go (IndexerPlugin) over the storage    *)
(* gateway of core/db.go (IndexerDB), run against the PostgreSQL schema of *)
(* CreateTablesSQL / schema.sql through database/sql and lib/pq.           *)
(*                                                                         *)
(* The committed store is the variable db.  A transaction works on a copy  *)
(* of it; a statement that fails (a constraint violation or an injected    *)
(* storage fault) puts the transaction into PostgreSQL's failed state, in  *)
(* which every later statement fails and Commit rolls back and returns     *)
(* pq.ErrInFailedTransaction.  Events are delivered one at a time; OnReorg *)
(* is split at the points where it calls OnHead, because each nested       *)
(* OnHead begins and commits a transaction of its own on another pooled    *)
(* connection while the reorg transaction is still open.                   *)
(*                                                                         *)
(* Spec is IndexerPlugin with the queries of IndexerDB; SpecGeth is the    *)
(* plugin of package plugin (GethPlugin); SpecVersioned is OnHead over the *)
(* optional fields of a header; SpecCache is GetBlockReceipts over the     *)
(* receipt cache.                                                          *)
(***************************************************************************)
EXTENDS Integers, Sequences, FiniteSets, TLC

\* ---------------------------------------------------------------- bounds
MaxNumber == 3
MaxHeaders == 2
MaxField == 1
MaxHashes == 34

Forks == {"a", "b", "c"}
Numbers == 1..MaxNumber

\* ---------------------------------------------------------------- chain objects
\* A header of the upstream node: its number and the fork it belongs to.
Headers == [number : Numbers, fork : Forks]

\* header.Hash(): distinct headers have distinct hashes.
HeaderHash(h) == <<h.number, h.fork>>

\* p.chain.GetReceiptsByHash(hash): the blocks of fork "c" carry one
\* transaction whose receipt has two logs, emitted with indices 1 and 0; the
\* blocks of the other forks are empty.
GetReceiptsByHash(h) ==
    IF h.fork = "c"
    THEN << [TxHash |-> <<"tx", h.number>>,
             Logs |-> << [Index |-> 1], [Index |-> 0] >>] >>
    ELSE << >>

\* Non-empty runs of consecutive block numbers, ascending or descending, of
\* at most MaxHeaders elements.
Segments ==
    { s \in UNION { [1..l -> Numbers] : l \in 1..MaxHeaders } :
        \/ \A i \in 1..(Len(s) - 1) : s[i + 1] = s[i] + 1
        \/ \A i \in 1..(Len(s) - 1) : s[i + 1] = s[i] - 1 }

\* oldHeaders of OnReorg: only the numbers of the old headers are read.
OldHeaderLists == Segments

\* newHeaders of OnReorg: a chain segment of one fork.
NewHeaderLists ==
    { [i \in 1..Len(s) |-> [number |-> s[i], fork |-> f]] :
        s \in Segments, f \in Forks }

\* ---------------------------------------------------------------- store
\* The tables of CreateTablesSQL, each a set of rows.
EmptyStore ==
    [blocks |-> {}, transactions |-> {}, receipts |-> {}, logs |-> {},
     state_changes |-> {}, access_lists |-> {}]

\* BIGSERIAL id of a new row: distinct from every id in the table.
NextId(rows) ==
    IF rows = {} THEN 1
    ELSE 1 + (CHOOSE m \in {r.id : r \in rows} : \A r \in rows : r.id <= m)

\* The Block record OnHead derives from a header.
Block(h) == [number |-> h.number, hash |-> HeaderHash(h), finalized |-> FALSE]

\* The Receipt record OnHead derives from the i-th receipt of a block.
Receipt(h, i, receipt) ==
    [block_number |-> h.number, block_hash |-> HeaderHash(h),
     transaction_hash |-> receipt.TxHash, transaction_index |-> i]

\* The Log record OnHead derives from a log entry of a receipt.
Log(h, receipt, logEntry) ==
    [block_number |-> h.number, transaction_hash |-> receipt.TxHash,
     log_index |-> logEntry.Index]

\* ---------------------------------------------------------------- schema
\* The statements of CreateTablesSQL in their order.  guard: the clause
\* that lets the statement pass over an object that exists ("none": the
\* statement fails on it); needs: the tables it refers to.
CreateTablesSQL ==
    << [kind |-> "TABLE", name |-> "blocks", guard |-> "IF NOT EXISTS",
        needs |-> {}],
       [kind |-> "TABLE", name |-> "transactions", guard |-> "IF NOT EXISTS",
        needs |-> {"blocks"}],
       [kind |-> "TABLE", name |-> "logs", guard |-> "IF NOT EXISTS",
        needs |-> {"transactions", "blocks"}],
       [kind |-> "TABLE", name |-> "state_changes", guard |-> "IF NOT EXISTS",
        needs |-> {"blocks", "transactions"}],
       [kind |-> "TABLE", name |-> "access_lists", guard |-> "IF NOT EXISTS",
        needs |-> {"transactions"}],
       [kind |-> "TABLE", name |-> "accounts", guard |-> "IF NOT EXISTS",
        needs |-> {"transactions"}],
       [kind |-> "TABLE", name |-> "receipts", guard |-> "IF NOT EXISTS",
        needs |-> {"blocks", "transactions"}],
       [kind |-> "INDEX", name |-> "idx_logs_address",
        guard |-> "IF NOT EXISTS", needs |-> {"logs"}],
       [kind |-> "INDEX", name |-> "idx_logs_topics",
        guard |-> "IF NOT EXISTS", needs |-> {"logs"}],
       [kind |-> "INDEX", name |-> "idx_state_changes_address",
        guard |-> "IF NOT EXISTS", needs |-> {"state_changes"}],
       [kind |-> "INDEX", name |-> "idx_access_lists_address",
        guard |-> "IF NOT EXISTS", needs |-> {"access_lists"}],
       [kind |-> "INDEX", name |-> "idx_accounts_creator",
        guard |-> "IF NOT EXISTS", needs |-> {"accounts"}],
       [kind |-> "INDEX", name |-> "idx_receipts_block",
        guard |-> "IF NOT EXISTS", needs |-> {"receipts"}],
       [kind |-> "INDEX", name |-> "idx_receipts_contract",
        guard |-> "IF NOT EXISTS", needs |-> {"receipts"}],
       [kind |-> "FUNCTION", name |-> "notify_new_block",
        guard |-> "OR REPLACE", needs |-> {}],
       [kind |-> "TRIGGER", name |-> "blocks_notify_trigger",
        guard |-> "none", needs |-> {"blocks"}] >>

\* The objects of a store on which CreateTablesSQL has run.
Installed == {CreateTablesSQL[i].name : i \in DOMAIN CreateTablesSQL}

\* The objects of a store made from schema.sql: its tables and indexes; it
\* has no function and no trigger.
SchemaSQL ==
    {CreateTablesSQL[i].name :
        i \in {j \in DOMAIN CreateTablesSQL :
                  CreateTablesSQL[j].kind \in {"TABLE", "INDEX"}}}

\* idb.db.Exec of a string of several statements: one implicit
\* transaction.  A statement fails when a table it refers to is missing or
\* when its object exists and it has no guard; a failure undoes the
\* statements before it.
ExecSchema(objects, statements) ==
    LET Before(i) == objects \cup {statements[j].name : j \in 1..(i - 1)}
        Fails(i) ==
            \/ ~(statements[i].needs \subseteq Before(i))
            \/ statements[i].guard = "none" /\ statements[i].name \in Before(i)
    IN  IF \E i \in DOMAIN statements : Fails(i)
        THEN [schema |-> objects, err |-> TRUE]
        ELSE [schema |-> objects \cup
                            {statements[i].name : i \in DOMAIN statements},
              err |-> FALSE]

\* initSchema: Exec(CreateTablesSQL); fault: the statement meets a storage
\* fault.
initSchema(objects, fault) ==
    IF fault THEN [schema |-> objects, err |-> TRUE]
    ELSE ExecSchema(objects, CreateTablesSQL)

VARIABLES
    db,               \* the committed contents of the tables
    finalizedColumn,  \* whether blocks has the column finalized
    schema,           \* the names of the tables, indexes, functions and
                      \* triggers the store has
    pc,               \* "idle", "reorg" (inside OnReorg), "blocked" (inside
                      \* OnReorg, waiting for a lock), "returned" or
                      \* "panicked" (the call unwound the host process)
    call,             \* the call in progress or just returned
    p,                \* the fields of the plugin: p.db is "none" (nil),
                      \* "open" or "closed"; p.chain is whether it is set
    receiptsCache,    \* the entries of the receipt cache, most recent first
    fetchable,        \* the hashes whose receipts the chain can return
    recency           \* the hashes GetBlockReceipts read or wrote in the
                      \* cache, each once, the most recent use last

cacheVars == <<receiptsCache, fetchable, recency>>

vars ==
    <<db, finalizedColumn, schema, pc, call, p, receiptsCache, fetchable,
      recency>>

\* call.op: "OnHead", "OnFinal" or "OnReorg"; pre: the committed store when
\* the call began; number: the header's number (OnReorg: the lowest number
\* of oldHeaders); headers: the header of OnHead, the newHeaders of OnReorg;
\* queue: the new headers OnReorg has still to hand to OnHead; deleted: the
\* rows the open reorg transaction has deleted; error: whether the call has
\* reported an error (log.Error); fault: whether one of its statements has
\* met a storage fault; value: the number a query returned; block: the
\* block rows a lookup returned (none: nil); receipts: the receipts
\* GetBlockReceipts returned (none: nil) for the hash in number; hit:
\* whether it found them in the cache; fetched: whether the call asked the
\* chain for receipts (p.chain.GetReceiptsByHash, getReceipts); open: the
\* number of transactions the call has begun and not yet ended.
NoCall ==
    [op |-> "none", pre |-> EmptyStore, number |-> 0, headers |-> << >>,
     queue |-> << >>, deleted |-> EmptyStore, error |-> FALSE,
     fault |-> FALSE, value |-> 0, block |-> {}, receipts |-> {},
     hit |-> FALSE, fetched |-> FALSE, open |-> 0]

\* ---------------------------------------------------------------- transactions
\* tx, err := p.db.db.Beginx(): statement 1 of a call.  failAt is the ordinal
\* of the statement that meets a storage fault (0: none does).
Beginx(store, failAt) ==
    [db |-> store, failed |-> FALSE, n |-> 1, failAt |-> failAt,
     err |-> (failAt = 1), fault |-> (failAt = 1), open |-> (failAt # 1)]

\* Exec without the constraints of the schema: a statement fails only in a
\* failed transaction or on a storage fault.
ExecUnchecked(T, ok, newdb) ==
    LET k == T.n + 1
    IN  IF T.failed \/ k = T.failAt
        THEN [T EXCEPT !.n = k, !.failed = TRUE, !.err = TRUE,
                       !.fault = @ \/ (~T.failed /\ k = T.failAt)]
        ELSE [T EXCEPT !.n = k, !.db = newdb, !.err = FALSE]

\* One statement of an open transaction.  It fails when the transaction is
\* already in the failed state, when it meets the storage fault, or when it
\* violates a constraint (~ok); a failure leaves the transaction failed.
Exec(T, ok, newdb) ==
    LET k == T.n + 1
    IN  IF T.failed \/ k = T.failAt \/ ~ok
        THEN [T EXCEPT !.n = k, !.failed = TRUE, !.err = TRUE,
                       !.fault = @ \/ (~T.failed /\ k = T.failAt)]
        ELSE [T EXCEPT !.n = k, !.db = newdb, !.err = FALSE]

\* Commit of a store that keeps the statements that succeeded before a
\* failure: only a storage fault at the commit itself fails it.
CommitDespiteFailure(T) ==
    LET k == T.n + 1
    IN  [T EXCEPT !.n = k, !.err = (k = T.failAt),
                  !.fault = @ \/ (k = T.failAt), !.open = FALSE]

\* tx.Commit(): a failed transaction is rolled back and an error returned.
\* The transaction is ended whatever Commit returns.
Commit(T) ==
    LET k == T.n + 1
    IN  [T EXCEPT !.n = k, !.err = (T.failed \/ k = T.failAt),
                  !.fault = @ \/ (~T.failed /\ k = T.failAt),
                  !.open = FALSE]

\* A return with no deferred Rollback: the transaction stays as it is.
RollbackForgotten(T) == T

\* defer tx.Rollback(), run at the return of the call: it ends a
\* transaction that is still open and does nothing after Commit.
Rollback(T) == [T EXCEPT !.open = FALSE]

\* INSERT INTO blocks ... ON CONFLICT (number) DO UPDATE: the row of the
\* number is replaced.
InsertBlockUpsertWithTx(T, block) ==
    Exec(T,
         \A r \in T.db.blocks : r.number # block.number => r.hash # block.hash,
         [T.db EXCEPT !.blocks =
             {r \in @ : r.number # block.number} \cup {block}])

\* INSERT INTO blocks: number is the primary key, hash is UNIQUE.
InsertBlockWithTx(T, block) ==
    Exec(T,
         \A r \in T.db.blocks : r.number # block.number /\ r.hash # block.hash,
         [T.db EXCEPT !.blocks = @ \cup {block}])

\* The unique check of INSERT INTO blocks finds a row that a transaction
\* still in progress has deleted (a row of locked): the statement waits for
\* that transaction to end.  The primary key is checked before the hash.
InsertBlockWaits(T, block, locked) ==
    /\ ~T.failed
    /\ T.n + 1 # T.failAt
    /\ LET byNumber == {r \in T.db.blocks : r.number = block.number}
           byHash == {r \in T.db.blocks : r.hash = block.hash}
       IN  IF byNumber # {} THEN byNumber \subseteq locked
           ELSE byHash # {} /\ byHash \subseteq locked

\* INSERT INTO receipts: block_number REFERENCES blocks(number),
\* transaction_hash REFERENCES transactions(hash), UNIQUE(transaction_hash).
InsertReceiptWithTx(T, receipt) ==
    Exec(T,
         /\ \E b \in T.db.blocks : b.number = receipt.block_number
         /\ \E t \in T.db.transactions : t.hash = receipt.transaction_hash
         /\ \A r \in T.db.receipts :
                r.transaction_hash # receipt.transaction_hash,
         [T.db EXCEPT !.receipts =
             @ \cup {[id |-> NextId(@)] @@ receipt}])

\* INSERT INTO logs: transaction_hash REFERENCES transactions(hash),
\* block_number REFERENCES blocks(number).
InsertLogWithTx(T, log) ==
    Exec(T,
         /\ \E t \in T.db.transactions : t.hash = log.transaction_hash
         /\ \E b \in T.db.blocks : b.number = log.block_number,
         [T.db EXCEPT !.logs = @ \cup {[id |-> NextId(@)] @@ log}])

\* The delete with ">= $1 - 1" in place of ">= $1" in the statement on
\* blocks: the parent goes too.
DeleteFromParentWithTx(T, blockNumber) ==
    Exec(T, TRUE,
         [T.db EXCEPT !.blocks = {b \in @ : b.number < blockNumber - 1}])

\* The delete with "= $1" in place of ">= $1" in the statement on blocks.
DeleteOneBlockWithTx(T, blockNumber) ==
    Exec(T, TRUE,
         [T.db EXCEPT !.blocks = {b \in @ : b.number # blockNumber}])

\* The five DELETE statements, in the order of deleteQueries; the first
\* that fails ends the call.  A DELETE fails when a row of another table
\* still references a row it removes.
DeleteBlockAndDescendantsWithTx(T, blockNumber) ==
    LET txs(S) == {t \in S.transactions : t.block_number >= blockNumber}
        hashes(S) == {t.hash : t \in txs(S)}
        blks(S) == {b \in S.blocks : b.number >= blockNumber}
        numbers(S) == {b.number : b \in blks(S)}
        T1 == Exec(T, TRUE,
                   [T.db EXCEPT !.access_lists =
                       {a \in @ : a.transaction_hash \notin hashes(T.db)}])
        T2 == Exec(T1, TRUE,
                   [T1.db EXCEPT !.state_changes =
                       {c \in @ : c.block_number < blockNumber}])
        T3 == Exec(T2, TRUE,
                   [T2.db EXCEPT !.logs =
                       {l \in @ : l.block_number < blockNumber}])
        T4 == Exec(T3,
                   \A tab \in {T3.db.logs, T3.db.state_changes,
                               T3.db.access_lists, T3.db.receipts} :
                       \A r \in tab : r.transaction_hash \notin hashes(T3.db),
                   [T3.db EXCEPT !.transactions = @ \ txs(T3.db)])
        T5 == Exec(T4,
                   \A tab \in {T4.db.transactions, T4.db.logs,
                               T4.db.state_changes, T4.db.receipts} :
                       \A r \in tab : r.block_number \notin numbers(T4.db),
                   [T4.db EXCEPT !.blocks = @ \ blks(T4.db)])
    IN  IF T1.err THEN T1
        ELSE IF T2.err THEN T2
        ELSE IF T3.err THEN T3
        ELSE IF T4.err THEN T4
        ELSE T5

\* ---------------------------------------------------------------- OnHead
\* for _, logEntry := range receipt.Logs: a log that fails is reported and
\* the loop goes on.
RECURSIVE IndexLogs(_, _, _, _)
IndexLogs(T, h, receipt, logs) ==
    IF logs = << >> THEN T
    ELSE IndexLogs(InsertLogWithTx(T, Log(h, receipt, Head(logs))),
                   h, receipt, Tail(logs))

\* for i, receipt := range receipts: a receipt that fails is reported and
\* its logs are skipped; otherwise its logs are indexed.
RECURSIVE IndexReceipts(_, _, _, _)
IndexReceipts(T, h, receipts, i) ==
    IF i > Len(receipts) THEN T
    ELSE LET T1 == InsertReceiptWithTx(T, Receipt(h, i - 1, receipts[i]))
         IN  IF T1.err
             THEN IndexReceipts(T1, h, receipts, i + 1)
             ELSE IndexReceipts(IndexLogs(T1, h, receipts[i], receipts[i].Logs),
                                h, receipts, i + 1)

\* The number of statements OnHead can issue for a header.
RECURSIVE CountLogs(_)
CountLogs(receipts) ==
    IF receipts = << >> THEN 0
    ELSE 1 + Len(Head(receipts).Logs) + CountLogs(Tail(receipts))

HeadStatements(h) == 3 + CountLogs(GetReceiptsByHash(h))

\* One run of OnHead(header) against the committed store, in a transaction
\* of its own.  locked: the block rows deleted by a transaction that is
\* still open.  status: "committed", "failed" (rolled back, with an error
\* reported) or "blocked" (the insert of the block waits for a lock).
\* fetched: whether the run reached p.chain.GetReceiptsByHash, which comes
\* after the insert of the block.  open: whether its transaction is still
\* open at that point (a failed Beginx returns before the defer).
OnHeadRun(store, locked, h, failAt) ==
    LET T0 == Beginx(store, failAt)
        T1 == InsertBlockWithTx(T0, Block(h))
        T2 == IndexReceipts(T1, h, GetReceiptsByHash(h), 1)
        T3 == Commit(T2)
    IN  IF T0.err
        THEN [status |-> "failed", db |-> store, fault |-> TRUE,
              fetched |-> FALSE, open |-> T0.open]
        ELSE IF InsertBlockWaits(T0, Block(h), locked)
             THEN [status |-> "blocked", db |-> store, fault |-> FALSE,
                   fetched |-> FALSE, open |-> T0.open]
        ELSE IF T1.err
             THEN [status |-> "failed", db |-> store, fault |-> T1.fault,
                   fetched |-> FALSE, open |-> Rollback(T1).open]
        ELSE IF T3.err
             THEN [status |-> "failed", db |-> store, fault |-> T3.fault,
                   fetched |-> TRUE, open |-> Rollback(T3).open]
        ELSE [status |-> "committed", db |-> T2.db, fault |-> FALSE,
              fetched |-> TRUE, open |-> Rollback(T3).open]

\* The upstream node delivers OnHead, OnFinal and OnReorg after OnInit and
\* before OnClose.  With p.db nil OnInit leaves p.chain unset.
Delivering == p.db = "none" \/ (p.db = "open" /\ p.chain)

\* OnInit: with a database, keep the chain handle.
OnInit ==
    /\ pc = "idle"
    /\ p.db # "closed" /\ ~p.chain
    /\ p' = IF p.db = "none" THEN p ELSE [p EXCEPT !.chain = TRUE]
    /\ call' = [NoCall EXCEPT !.op = "OnInit", !.pre = db]
    /\ pc' = "returned"
    /\ UNCHANGED <<db, finalizedColumn, schema, cacheVars>>

\* OnHead delivered by the upstream node; if p.db == nil { return }.
OnHead ==
    /\ pc = "idle"
    /\ Delivering
    /\ \E h \in Headers : \E failAt \in 0..HeadStatements(h) :
       \E run \in {OnHeadRun(db, {}, h, failAt)} :
            IF p.db = "none"
            THEN /\ db' = db
                 /\ call' = [NoCall EXCEPT !.op = "OnHead", !.pre = db,
                                           !.number = h.number,
                                           !.headers = <<h>>]
            ELSE /\ db' = run.db
                 /\ call' = [NoCall EXCEPT
                               !.op = "OnHead", !.pre = db,
                               !.number = h.number, !.headers = <<h>>,
                               !.error = (run.status # "committed"),
                               !.fault = run.fault,
                               !.fetched = run.fetched,
                               !.open = IF run.open THEN 1 ELSE 0]
    /\ pc' = "returned"
    /\ UNCHANGED <<finalizedColumn, schema, p, cacheVars>>

\* ---------------------------------------------------------------- OnFinal
\* The UPDATE with "SET finalized = NOT finalized" in place of
\* "SET finalized = true".
MarkBlockToggled(store, col, blockNumber, failAt) ==
    IF failAt = 1 THEN [db |-> store, col |-> col, err |-> TRUE]
    ELSE IF failAt = 2 THEN [db |-> store, col |-> TRUE, err |-> TRUE]
    ELSE [db |-> [store EXCEPT !.blocks =
                    {IF b.number = blockNumber
                     THEN [b EXCEPT !.finalized = ~@] ELSE b : b \in @}],
          col |-> TRUE, err |-> FALSE]

\* The UPDATE with "WHERE number <= $1" in place of "WHERE number = $1".
MarkBlockAndAncestorsFinalized(store, col, blockNumber, failAt) ==
    IF failAt = 1 THEN [db |-> store, col |-> col, err |-> TRUE]
    ELSE IF failAt = 2 THEN [db |-> store, col |-> TRUE, err |-> TRUE]
    ELSE [db |-> [store EXCEPT !.blocks =
                    {IF b.number <= blockNumber
                     THEN [b EXCEPT !.finalized = TRUE] ELSE b : b \in @}],
          col |-> TRUE, err |-> FALSE]

\* ALTER TABLE blocks ADD COLUMN IF NOT EXISTS finalized, then
\* UPDATE blocks SET finalized = true WHERE number = $1, each in autocommit.
\* col: whether the column exists afterwards.
MarkBlockFinalized(store, col, blockNumber, failAt) ==
    IF failAt = 1 THEN [db |-> store, col |-> col, err |-> TRUE]
    ELSE IF failAt = 2 THEN [db |-> store, col |-> TRUE, err |-> TRUE]
    ELSE [db |-> [store EXCEPT !.blocks =
                    {IF b.number = blockNumber
                     THEN [b EXCEPT !.finalized = TRUE] ELSE b : b \in @}],
          col |-> TRUE, err |-> FALSE]

\* OnFinal delivered by the upstream node; only the header's number is read.
\* if p.db == nil { return }.
OnFinal ==
    /\ pc = "idle"
    /\ Delivering
    /\ \E number \in Numbers : \E failAt \in 0..2 :
        LET res == MarkBlockFinalized(db, finalizedColumn, number, failAt)
        IN  IF p.db = "none"
            THEN /\ UNCHANGED <<db, finalizedColumn>>
                 /\ call' = [NoCall EXCEPT !.op = "OnFinal", !.pre = db,
                                           !.number = number]
            ELSE /\ db' = res.db
                 /\ finalizedColumn' = res.col
                 /\ call' = [NoCall EXCEPT
                               !.op = "OnFinal", !.pre = db,
                               !.number = number, !.error = res.err,
                               !.fault = res.err]
    /\ pc' = "returned"
    /\ UNCHANGED <<schema, p, cacheVars>>

\* ---------------------------------------------------------------- OnReorg
\* The lowest block number of a list of header numbers.
Lowest(numbers) ==
    CHOOSE m \in {numbers[i] : i \in 1..Len(numbers)} :
        \A i \in 1..Len(numbers) : m <= numbers[i]

\* One DeleteBlockAndDescendantsWithTx, for the first old header only.
DeleteFirstOldHeader(T, oldNumbers) ==
    IF oldNumbers = << >> THEN T
    ELSE DeleteBlockAndDescendantsWithTx(T, Head(oldNumbers))

\* for _, header := range oldHeaders: one DeleteBlockAndDescendantsWithTx per
\* old header, in the order given; the first that fails ends OnReorg.
RECURSIVE DeleteOldHeaders(_, _)
DeleteOldHeaders(T, oldNumbers) ==
    IF oldNumbers = << >> THEN T
    ELSE LET T1 == DeleteBlockAndDescendantsWithTx(T, Head(oldNumbers))
         IN  IF T1.err THEN T1 ELSE DeleteOldHeaders(T1, Tail(oldNumbers))

\* The rows of each table that the transaction T has removed from store.
Removed(store, T) == [t \in DOMAIN store |-> store[t] \ T.db[t]]

\* The pairs (oldHeaders, newHeaders) the upstream node delivers: both
\* non-empty, both starting from the first block after the common ancestor.
ReorgInputs ==
    { io \in OldHeaderLists \X NewHeaderLists :
        Lowest(io[1]) = Lowest([i \in 1..Len(io[2]) |-> io[2][i].number]) }

\* OnReorg up to its first call of OnHead: begin the reorg transaction and
\* delete the old range in it.  A failure returns (the deferred Rollback).
\* OnReorg does not test p.db: with p.db nil, p.db.db dereferences nil.
ReorgStart ==
    /\ pc = "idle"
    /\ Delivering
    /\ \E io \in ReorgInputs : \E failAt \in 0..(1 + 5 * Len(io[1])) :
        LET old == io[1]
            new == io[2]
            T0 == Beginx(db, failAt)
        IN  \E T1 \in {DeleteOldHeaders(T0, old)} :
            LET err == T0.err \/ T1.err IN
            IF p.db = "none"
            THEN /\ call' = [NoCall EXCEPT !.op = "OnReorg", !.pre = db,
                                           !.number = Lowest(old),
                                           !.headers = new]
                 /\ pc' = "panicked"
            ELSE /\ call' = [op |-> "OnReorg", pre |-> db,
                             number |-> Lowest(old), headers |-> new,
                             queue |-> IF err THEN << >> ELSE new,
                             deleted |-> IF err THEN EmptyStore
                                         ELSE Removed(db, T1),
                             error |-> err, fault |-> T1.fault,
                             value |-> 0, block |-> {}, receipts |-> {},
                             hit |-> FALSE, fetched |-> FALSE,
                             open |-> IF T0.err THEN 0
                                      ELSE IF T1.err
                                      THEN IF Rollback(T1).open THEN 1 ELSE 0
                                      ELSE IF T1.open THEN 1 ELSE 0]
                 /\ pc' = IF err THEN "returned" ELSE "reorg"
    /\ UNCHANGED <<db, finalizedColumn, schema, p, cacheVars>>

\* for _, header := range newHeaders { p.OnHead(header) }: one iteration.
\* OnHead runs in its own transaction while the reorg transaction is open.
ReorgInsert ==
    /\ pc = "reorg"
    /\ call.queue # << >>
    /\ LET h == Head(call.queue)
       IN  \E failAt \in 0..HeadStatements(h) :
           \E run \in {OnHeadRun(db, call.deleted.blocks, h, failAt)} :
                IF run.status = "blocked"
                THEN /\ pc' = "blocked"
                     /\ call' = [call EXCEPT !.open = @ + 1]
                     /\ UNCHANGED db
                ELSE /\ pc' = pc
                     /\ db' = run.db
                     /\ call' = [call EXCEPT
                                   !.queue = Tail(@),
                                   !.error = @ \/ run.status = "failed",
                                   !.fault = @ \/ run.fault,
                                   !.fetched = @ \/ run.fetched,
                                   !.open = IF run.open THEN @ + 1 ELSE @]
    /\ UNCHANGED <<finalizedColumn, schema, p, cacheVars>>

\* tx.Commit() of the reorg transaction: the rows it deleted leave the
\* committed store, unless the commit fails.
ReorgCommit ==
    /\ pc = "reorg"
    /\ call.queue = << >>
    /\ \E fail \in BOOLEAN :
        /\ db' = IF fail THEN db
                 ELSE [t \in DOMAIN db |-> db[t] \ call.deleted[t]]
        /\ call' = [call EXCEPT !.error = @ \/ fail, !.fault = @ \/ fail,
                                !.open = @ - 1]
    /\ pc' = "returned"
    /\ UNCHANGED <<finalizedColumn, schema, p, cacheVars>>

\* ---------------------------------------------------------------- OnClose
\* p.db.Close() with no test of p.db: with p.db nil, idb.db dereferences
\* nil.  Closing a closed pool returns nil; an error of Close is reported.
OnClose ==
    /\ pc = "idle"
    /\ IF p.db = "none"
       THEN /\ pc' = "panicked"
            /\ call' = [NoCall EXCEPT !.op = "OnClose", !.pre = db]
            /\ UNCHANGED p
       ELSE \E fail \in BOOLEAN :
            /\ p.db = "closed" => ~fail
            /\ p' = [p EXCEPT !.db = "closed"]
            /\ call' = [NoCall EXCEPT !.op = "OnClose", !.pre = db,
                                      !.error = fail, !.fault = fail]
            /\ pc' = "returned"
    /\ UNCHANGED <<db, finalizedColumn, schema, cacheVars>>

\* ---------------------------------------------------------------- queries
\* SELECT COALESCE(MAX(number), 0) FROM blocks WHERE finalized = true.
LatestFinalized(store) ==
    LET fin == {b.number : b \in {r \in store.blocks : r.finalized}}
    IN  IF fin = {} THEN 0 ELSE CHOOSE m \in fin : \A n \in fin : n <= m

\* idb.db.Get of GetLatestFinalizedBlock: the statement fails on a storage
\* fault (failAt = 1) and when blocks has no column finalized.
SelectLatestFinalized(store, col, failAt) ==
    IF failAt = 1 \/ ~col
    THEN [value |-> 0, err |-> TRUE, fault |-> (failAt = 1)]
    ELSE [value |-> LatestFinalized(store), err |-> FALSE, fault |-> FALSE]

GetLatestFinalizedBlock ==
    /\ pc = "idle"
    /\ p.db = "open"
    /\ \E failAt \in 0..1 :
        LET res == SelectLatestFinalized(db, finalizedColumn, failAt)
        IN  call' = [NoCall EXCEPT !.op = "GetLatestFinalizedBlock",
                                  !.pre = db, !.value = res.value,
                                  !.error = res.err, !.fault = res.fault]
    /\ pc' = "returned"
    /\ UNCHANGED <<db, finalizedColumn, schema, p, cacheVars>>

\* idb.db.Get(&block, "SELECT * FROM blocks WHERE ...") into a Block: rows
\* are the rows the WHERE clause matches.  sqlx maps the columns of the
\* result to the fields of Block before it reads a row: a column with no
\* field (finalized, which Block does not have) is an error, with or without
\* a row.  Without a row the scan returns sql.ErrNoRows: (nil, nil).
SelectBlock(col, rows, failAt) ==
    IF failAt = 1 THEN [block |-> {}, err |-> TRUE, fault |-> TRUE]
    ELSE IF col THEN [block |-> {}, err |-> TRUE, fault |-> FALSE]
    ELSE [block |-> rows, err |-> FALSE, fault |-> FALSE]

GetBlockByNumber ==
    /\ pc = "idle"
    /\ p.db = "open"
    /\ \E number \in Numbers : \E failAt \in 0..1 :
        LET res == SelectBlock(finalizedColumn,
                               {b \in db.blocks : b.number = number}, failAt)
        IN  call' = [NoCall EXCEPT !.op = "GetBlockByNumber", !.pre = db,
                                  !.number = number, !.block = res.block,
                                  !.error = res.err, !.fault = res.fault]
    /\ pc' = "returned"
    /\ UNCHANGED <<db, finalizedColumn, schema, p, cacheVars>>

GetBlockByHash ==
    /\ pc = "idle"
    /\ p.db = "open"
    /\ \E h \in Headers : \E failAt \in 0..1 :
        LET res == SelectBlock(finalizedColumn,
                               {b \in db.blocks : b.hash = HeaderHash(h)},
                               failAt)
        IN  call' = [NoCall EXCEPT !.op = "GetBlockByHash", !.pre = db,
                                  !.headers = <<h>>, !.block = res.block,
                                  !.error = res.err, !.fault = res.fault]
    /\ pc' = "returned"
    /\ UNCHANGED <<db, finalizedColumn, schema, p, cacheVars>>

\* The callback returns to the upstream node, which may deliver the next
\* event.
Return ==
    /\ pc = "returned"
    /\ pc' = "idle"
    /\ call' = NoCall
    /\ UNCHANGED <<db, finalizedColumn, schema, p, cacheVars>>

\* ---------------------------------------------------------------- specification
Init ==
    /\ db = EmptyStore
    /\ finalizedColumn \in BOOLEAN
    /\ schema = Installed
    /\ pc = "idle"
    /\ call = NoCall
    /\ p \in [db : {"none", "open"}, chain : {FALSE}]
    /\ receiptsCache = << >>
    /\ fetchable = {}
    /\ recency = << >>

Next ==
    \/ OnInit
    \/ OnHead
    \/ OnFinal
    \/ ReorgStart
    \/ ReorgInsert
    \/ ReorgCommit
    \/ OnClose
    \/ GetLatestFinalizedBlock
    \/ GetBlockByNumber
    \/ GetBlockByHash
    \/ Return

Spec == Init /\ [][Next]_vars

\* ---------------------------------------------------------------- GethPlugin
\* The plugin of package plugin (GethPlugin) over the same gateway: every
\* statement outside a transaction commits by itself.

\* idb.db.NamedExec(INSERT INTO blocks ...) in autocommit.
InsertBlock(store, block, fail) ==
    LET T == InsertBlockWithTx(Beginx(store, IF fail THEN 2 ELSE 0), block)
    IN  [db |-> IF T.err THEN store ELSE T.db, err |-> T.err]

\* The five DELETE statements with no transaction around them: each that
\* succeeds is kept, whatever fails after it.
DeleteBlockAndDescendantsAutocommit(store, blockNumber, failAt) ==
    LET T0 == Beginx(store, failAt)
        T1 == DeleteBlockAndDescendantsWithTx(T0, blockNumber)
        T2 == Commit(T1)
    IN  IF T0.err THEN [db |-> store, err |-> TRUE]
        ELSE [db |-> T1.db, err |-> T1.err \/ T2.err]

\* DeleteBlockAndDescendants: a transaction of its own around the five
\* DELETE statements; statement 1 is Beginx, statement 7 the Commit.
DeleteBlockAndDescendants(store, blockNumber, failAt) ==
    LET T0 == Beginx(store, failAt)
        T1 == DeleteBlockAndDescendantsWithTx(T0, blockNumber)
        T2 == Commit(T1)
    IN  IF T0.err \/ T1.err \/ T2.err
        THEN [db |-> store, err |-> TRUE]
        ELSE [db |-> T1.db, err |-> FALSE]

DeleteStatements == 7

\* for _, header := range oldHeaders: a delete that fails is reported
\* (log.Printf) and the loop goes on.  failAt counts the statements of the
\* whole callback.
RECURSIVE GethDeleteOld(_, _, _)
GethDeleteOld(store, oldNumbers, failAt) ==
    IF oldNumbers = << >> THEN [db |-> store, err |-> FALSE]
    ELSE LET f == IF failAt \in 1..DeleteStatements THEN failAt ELSE 0
             Rest(res) ==
                 {[db |-> rest.db, err |-> res.err \/ rest.err] :
                     rest \in {GethDeleteOld(res.db, Tail(oldNumbers),
                                             failAt - DeleteStatements)}}
         IN  CHOOSE out \in UNION {Rest(res) : res \in
                 {DeleteBlockAndDescendants(store, Head(oldNumbers), f)}} :
                 TRUE

\* for _, header := range newHeaders { p.OnHead(header) }: OnHead panics
\* when InsertBlock returns an error, which ends the loop.
RECURSIVE GethInsertNew(_, _, _)
GethInsertNew(store, headers, failAt) ==
    IF headers = << >> THEN [db |-> store, panic |-> FALSE]
    ELSE CHOOSE out \in
             {IF res.err THEN [db |-> store, panic |-> TRUE]
              ELSE GethInsertNew(res.db, Tail(headers), failAt - 1) :
                 res \in {InsertBlock(store, Block(Head(headers)),
                                      failAt = 1)}} : TRUE

GethOnInit ==
    /\ pc = "idle"
    /\ ~p.chain
    /\ p' = [p EXCEPT !.chain = TRUE]
    /\ call' = [NoCall EXCEPT !.op = "OnInit", !.pre = db]
    /\ pc' = "returned"
    /\ UNCHANGED <<db, finalizedColumn, schema, cacheVars>>

\* GethPlugin.OnHead: panic(...) when InsertBlock fails.
GethOnHead ==
    /\ pc = "idle"
    /\ p.chain
    /\ \E h \in Headers : \E fail \in BOOLEAN :
       \E res \in {InsertBlock(db, Block(h), fail)} :
            /\ db' = res.db
            /\ call' = [NoCall EXCEPT !.op = "OnHead", !.pre = db,
                                      !.number = h.number, !.headers = <<h>>,
                                      !.error = res.err, !.fault = fail]
            /\ pc' = IF res.err THEN "panicked" ELSE "returned"
    /\ UNCHANGED <<finalizedColumn, schema, p, cacheVars>>

\* GethPlugin.OnFinal and GethPlugin.OnClose have empty bodies.
GethOnFinal ==
    /\ pc = "idle"
    /\ p.chain
    /\ \E number \in Numbers :
        call' = [NoCall EXCEPT !.op = "OnFinal", !.pre = db,
                              !.number = number]
    /\ pc' = "returned"
    /\ UNCHANGED <<db, finalizedColumn, schema, p, cacheVars>>

GethOnClose ==
    /\ pc = "idle"
    /\ call' = [NoCall EXCEPT !.op = "OnClose", !.pre = db]
    /\ pc' = "returned"
    /\ UNCHANGED <<db, finalizedColumn, schema, p, cacheVars>>

\* GethPlugin.OnReorg: the deletes, each in its own transaction, then the
\* inserts, each in autocommit.
GethOnReorg ==
    /\ pc = "idle"
    /\ p.chain
    /\ \E io \in ReorgInputs :
       \E failAt \in 0..(DeleteStatements * Len(io[1]) + Len(io[2])) :
       \E del \in {GethDeleteOld(db, io[1], failAt)} :
       \E ins \in {GethInsertNew(del.db, io[2],
                                  failAt - DeleteStatements * Len(io[1]))} :
            /\ db' = ins.db
            /\ call' = [NoCall EXCEPT !.op = "OnReorg", !.pre = db,
                                      !.number = Lowest(io[1]),
                                      !.headers = io[2],
                                      !.error = del.err \/ ins.panic,
                                      !.fault = (failAt # 0)]
            /\ pc' = IF ins.panic THEN "panicked" ELSE "returned"
    /\ UNCHANGED <<finalizedColumn, schema, p, cacheVars>>

\* DeleteBlockAndDescendants(blockNumber) called on the gateway by itself.
DeleteRange ==
    /\ pc = "idle"
    /\ \E blockNumber \in Numbers : \E failAt \in 0..DeleteStatements :
       \E res \in {DeleteBlockAndDescendants(db, blockNumber, failAt)} :
            /\ db' = res.db
            /\ call' = [NoCall EXCEPT !.op = "DeleteBlockAndDescendants",
                                      !.pre = db, !.number = blockNumber,
                                      !.error = res.err,
                                      !.fault = (failAt # 0)]
    /\ pc' = "returned"
    /\ UNCHANGED <<finalizedColumn, schema, p, cacheVars>>

InitGeth ==
    /\ db = EmptyStore
    /\ finalizedColumn = FALSE
    /\ schema = Installed
    /\ pc = "idle"
    /\ call = NoCall
    /\ p = [db |-> "open", chain |-> FALSE]
    /\ receiptsCache = << >>
    /\ fetchable = {}
    /\ recency = << >>

NextGeth ==
    \/ GethOnInit
    \/ GethOnHead
    \/ GethOnFinal
    \/ GethOnClose
    \/ GethOnReorg
    \/ DeleteRange
    \/ Return

SpecGeth == InitGeth /\ [][NextGeth]_vars

\* ---------------------------------------------------------------- optional fields
\* The optional fields of types.Header are pointers: {} is nil, {v} points
\* to v.
OptionalValues == {{}} \cup {{v} : v \in 0..MaxField}

\* A header of block 1 with each optional field present or absent.
VersionedHeaders ==
    [number : {1}, fork : {"a"}, BaseFee : OptionalValues,
     BlobGasUsed : OptionalValues, ExcessBlobGas : OptionalValues,
     WithdrawalsHash : OptionalValues, ParentBeaconRoot : OptionalValues]

\* The decimal digits of n, as fmt.Sprintf("%d", n) and big.Int.String()
\* write them.
RECURSIVE Decimal(_)
Decimal(n) ==
    IF n < 10 THEN <<n>> ELSE Append(Decimal(n \div 10), n % 10)

\* (*big.Int).String(): "<nil>" for a nil pointer.
BigIntString(ptr) ==
    IF ptr = {} THEN <<"<nil>">> ELSE Decimal(CHOOSE v \in ptr : TRUE)

\* common.Hash.String() of a hash: "0x" and its digits.
HashString(v) == <<"0x">> \o Decimal(v)

\* sql.NullString{String: str, Valid: valid}.
NullString(str, valid) == [String |-> str, Valid |-> valid]

\* The column a NullString is stored as: {} is NULL.
Column(ns) == IF ns.Valid THEN {ns.String} ELSE {}

\* The expressions of the literal &Block{...} that read the optional fields
\* before Valid is looked at: *header.BlobGasUsed, *header.ExcessBlobGas,
\* header.ParentBeaconRoot.String() and header.WithdrawalsHash.String()
\* (a method of the value common.Hash) dereference the pointer.
DerivationPanics(h) ==
    \/ h.BlobGasUsed = {}
    \/ h.ExcessBlobGas = {}
    \/ h.ParentBeaconRoot = {}
    \/ h.WithdrawalsHash = {}

\* The optional columns of the Block record of a header whose derivation
\* does not panic.
OptionalColumns(h) ==
    LET val(ptr) == CHOOSE v \in ptr : TRUE
    IN  [base_fee_per_gas |->
             Column(NullString(BigIntString(h.BaseFee), h.BaseFee # {})),
         blob_gas_used |->
             Column(NullString(Decimal(val(h.BlobGasUsed)),
                               h.BlobGasUsed # {})),
         excess_blob_gas |->
             Column(NullString(Decimal(val(h.ExcessBlobGas)),
                               h.ExcessBlobGas # {})),
         parent_beacon_block_root |->
             Column(NullString(HashString(val(h.ParentBeaconRoot)),
                               h.ParentBeaconRoot # {})),
         withdrawals_root |->
             Column(NullString(HashString(val(h.WithdrawalsHash)),
                               h.WithdrawalsHash # {}))]

\* OnHead of a header on the empty store, with no storage fault: Beginx,
\* the Block literal, the insert, the commit.  A panic in the literal runs
\* the deferred Rollback and unwinds.
OnHeadVersioned ==
    /\ pc = "idle"
    /\ db = EmptyStore
    /\ \E h \in VersionedHeaders :
        /\ call' = [NoCall EXCEPT !.op = "OnHead", !.pre = db,
                                  !.number = h.number, !.headers = <<h>>]
        /\ IF DerivationPanics(h)
           THEN /\ pc' = "panicked"
                /\ db' = db
           ELSE \E T \in {Commit(InsertBlockWithTx(
                              Beginx(db, 0),
                              Block(h) @@ OptionalColumns(h)))} :
                /\ pc' = "returned"
                /\ db' = T.db
    /\ UNCHANGED <<finalizedColumn, schema, p, cacheVars>>

InitVersioned ==
    /\ db = EmptyStore
    /\ finalizedColumn \in BOOLEAN
    /\ schema = Installed
    /\ pc = "idle"
    /\ call = NoCall
    /\ p = [db |-> "open", chain |-> TRUE]
    /\ receiptsCache = << >>
    /\ fetchable = {}
    /\ recency = << >>

SpecVersioned == InitVersioned /\ [][OnHeadVersioned]_vars

\* ---------------------------------------------------------------- receipt cache
\* The cache with one more entry than the constructor asks for.
CacheCapacityOneMore == 32 + 1

\* lru.NewCache[common.Hash, types.Receipts](32).
CacheCapacity == 32

\* The block hashes of the chain, in the order the chain imports them.
Hashes == 1..MaxHashes

\* The hashes the callers come back to at any time.
Revisited == {1, 2}

\* The receipts of the block with a hash: they never change.
ReceiptsAt(hash) == << [TxHash |-> <<"tx", hash>>, Logs |-> << >>] >>

\* getReceipts(hash): nil ({}) while the chain does not have the block.
getReceipts(avail, hash) ==
    IF hash \in avail THEN {ReceiptsAt(hash)} ELSE {}

CacheKeys(cache) == {cache[i].key : i \in 1..Len(cache)}

CacheIndex(cache, key) == CHOOSE i \in 1..Len(cache) : cache[i].key = key

Without(seq, i) == SubSeq(seq, 1, i - 1) \o SubSeq(seq, i + 1, Len(seq))

\* receiptsCache.Get(hash): the value of the key, which becomes the most
\* recently used entry.
CacheGet(cache, key) ==
    IF key \in CacheKeys(cache)
    THEN LET i == CacheIndex(cache, key)
         IN  [ok |-> TRUE, value |-> cache[i].value,
              cache |-> <<cache[i]>> \o Without(cache, i)]
    ELSE [ok |-> FALSE, value |-> {}, cache |-> cache]

\* receiptsCache.Add(hash, receipts): the entry becomes the most recently
\* used; a new key at capacity evicts the least recently used entry.
CacheAdd(cache, key, value) ==
    LET entry == [key |-> key, value |-> value]
    IN  IF key \in CacheKeys(cache)
        THEN <<entry>> \o Without(cache, CacheIndex(cache, key))
        ELSE IF Len(cache) >= CacheCapacity
             THEN <<entry>> \o SubSeq(cache, 1, CacheCapacity - 1)
             ELSE <<entry>> \o cache

\* GetBlockReceipts without "if receipts == nil { return nil }": a nil
\* result is cached like any other.
CachedReceiptsWithNil(cache, avail, hash) ==
    LET got == CacheGet(cache, hash)
        receipts == getReceipts(avail, hash)
    IN  IF got.ok
        THEN [receipts |-> got.value, cache |-> got.cache, hit |-> TRUE]
        ELSE [receipts |-> receipts,
              cache |-> CacheAdd(got.cache, hash, receipts), hit |-> FALSE]

\* The body of GetBlockReceipts: the cache first, then the chain; a nil
\* result is returned and not cached.
CachedReceipts(cache, avail, hash) ==
    LET got == CacheGet(cache, hash)
        receipts == getReceipts(avail, hash)
    IN  IF got.ok
        THEN [receipts |-> got.value, cache |-> got.cache, hit |-> TRUE]
        ELSE IF receipts = {}
        THEN [receipts |-> {}, cache |-> got.cache, hit |-> FALSE]
        ELSE [receipts |-> receipts,
              cache |-> CacheAdd(got.cache, hash, receipts), hit |-> FALSE]

\* The newest block of the chain (0: none yet).
ChainHead == Cardinality(fetchable)

\* A caller asks for the receipts of the chain's head, of the block the
\* chain is about to import, or of a hash it comes back to.
GetBlockReceipts ==
    /\ pc = "idle"
    /\ \E hash \in Hashes \cap ({ChainHead, ChainHead + 1} \cup Revisited) :
       \E res \in {CachedReceipts(receiptsCache, fetchable, hash)} :
        /\ receiptsCache' = res.cache
        /\ recency' = IF res.hit \/ res.receipts # {}
                      THEN LET Other(x) == x # hash
                           IN  Append(SelectSeq(recency, Other), hash)
                      ELSE recency
        /\ call' = [NoCall EXCEPT !.op = "GetBlockReceipts",
                                  !.number = hash,
                                  !.receipts = res.receipts,
                                  !.hit = res.hit,
                                  !.fetched = ~res.hit]
    /\ pc' = "returned"
    /\ UNCHANGED <<db, finalizedColumn, schema, p, fetchable>>

\* The chain imports its next block, after the receipts of its head were
\* asked for.
ChainAdvance ==
    /\ pc = "idle"
    /\ ChainHead < MaxHashes
    /\ ChainHead = 0 \/ ChainHead \in CacheKeys(receiptsCache)
    /\ fetchable' = fetchable \cup {ChainHead + 1}
    /\ UNCHANGED <<db, finalizedColumn, schema, pc, call, p, receiptsCache,
                   recency>>

InitCache ==
    /\ db = EmptyStore
    /\ finalizedColumn = FALSE
    /\ schema = Installed
    /\ pc = "idle"
    /\ call = NoCall
    /\ p = [db |-> "none", chain |-> FALSE]
    /\ receiptsCache = << >>
    /\ fetchable = {}
    /\ recency = << >>

NextCache ==
    \/ GetBlockReceipts
    \/ ChainAdvance
    \/ Return

SpecCache == InitCache /\ [][NextCache]_vars

\* ---------------------------------------------------------------- heads and the cache
\* The heads whose receipts a caller asks GetBlockReceipts for.
CachedHeads == {h \in Headers : h.number = 1}

\* GetBlockReceipts(p.chain.GetReceiptsByHash, header.Hash(), number) for a
\* head the chain has: the cache first; on a miss the chain, whose result
\* (not nil for a block it has) is added to the cache.
GetHeadReceipts ==
    /\ pc = "idle"
    /\ p.chain
    /\ \E h \in CachedHeads :
       \E got \in {CacheGet(receiptsCache, HeaderHash(h))} :
        LET receipts == {GetReceiptsByHash(h)}
            Other(x) == x # HeaderHash(h)
        IN  /\ receiptsCache' =
                   IF got.ok THEN got.cache
                   ELSE CacheAdd(got.cache, HeaderHash(h), receipts)
            /\ recency' = Append(SelectSeq(recency, Other), HeaderHash(h))
            /\ call' = [NoCall EXCEPT
                          !.op = "GetBlockReceipts", !.pre = db,
                          !.number = h.number, !.headers = <<h>>,
                          !.receipts = IF got.ok THEN got.value ELSE receipts,
                          !.hit = got.ok, !.fetched = ~got.ok]
    /\ pc' = "returned"
    /\ UNCHANGED <<db, finalizedColumn, schema, p, fetchable>>

InitHeads ==
    /\ db = EmptyStore
    /\ finalizedColumn = FALSE
    /\ schema = Installed
    /\ pc = "idle"
    /\ call = NoCall
    /\ p = [db |-> "open", chain |-> FALSE]
    /\ receiptsCache = << >>
    /\ fetchable = {}
    /\ recency = << >>

NextHeads ==
    \/ OnInit
    \/ OnHead
    \/ GetHeadReceipts
    \/ Return

SpecHeads == InitHeads /\ [][NextHeads]_vars

\* ---------------------------------------------------------------- starts
\* A start of the engine on the store: NewDB(config), then
\* NewIndexerPlugin(db).  connect: sqlx.Connect and Ping succeed.  When
\* NewDB returns an error no engine is made.
NewDB ==
    /\ pc = "idle"
    /\ p.db = "closed"
    /\ \E connect \in BOOLEAN : \E fault \in BOOLEAN :
       \E res \in {initSchema(schema, fault)} :
        LET err == ~connect \/ res.err
        IN  /\ schema' = IF connect THEN res.schema ELSE schema
            /\ p' = IF err THEN p ELSE [db |-> "open", chain |-> FALSE]
            /\ call' = [NoCall EXCEPT !.op = "NewDB", !.pre = db,
                                      !.error = err,
                                      !.fault = ~connect \/ fault]
    /\ pc' = "returned"
    /\ UNCHANGED <<db, finalizedColumn, cacheVars>>

\* The store before the first start: empty, or made from schema.sql, whose
\* blocks table has the column finalized.
InitStarts ==
    /\ db = EmptyStore
    /\ \/ schema = {} /\ finalizedColumn = FALSE
       \/ schema = SchemaSQL /\ finalizedColumn = TRUE
    /\ pc = "idle"
    /\ call = NoCall
    /\ p = [db |-> "closed", chain |-> FALSE]
    /\ receiptsCache = << >>
    /\ fetchable = {}
    /\ recency = << >>

NextStarts ==
    \/ NewDB
    \/ OnInit
    \/ OnHead
    \/ OnClose
    \/ Return

SpecStarts == InitStarts /\ [][NextStarts]_vars

\* ---------------------------------------------------------------- properties
\* The committed row of a header: same number and same hash.
Committed(store, h) ==
    \E b \in store.blocks : b.number = h.number /\ b.hash = HeaderHash(h)

\* A stored row without its synthetic id.
Content(row) == [k \in DOMAIN row \ {"id"} |-> row[k]]

\* The receipt and log records OnHead derives for a header.
ReceiptsOf(h) ==
    LET rs == GetReceiptsByHash(h)
    IN  {Receipt(h, i - 1, rs[i]) : i \in 1..Len(rs)}

LogsOf(h) ==
    LET rs == GetReceiptsByHash(h)
    IN  UNION { {Log(h, rs[i], rs[i].Logs[j]) : j \in 1..Len(rs[i].Logs)} :
                i \in 1..Len(rs) }

NewBlocks == {Block(call.headers[i]) : i \in 1..Len(call.headers)}

FinalizedInRange ==
    \E b \in call.pre.blocks : b.finalized /\ b.number >= call.number

\* C1: when a storage operation of OnReorg has failed, the committed store
\* after OnReorg returns equals the committed store before the call.
C1_FailedReorgLeavesStore ==
    (pc = "returned" /\ call.op = "OnReorg" /\ call.error) => db = call.pre

\* C2: between the start and the end of OnReorg the committed store is the
\* one before the call: nothing is committed before the reorg transaction.
C2_ReorgOneTransaction ==
    (pc \in {"reorg", "blocked"}) => db = call.pre

\* C3: after an OnReorg in which no storage operation failed, the committed
\* block rows numbered from the pivot on are exactly the blocks of newHeaders.
C3_ReorgInstallsNewChain ==
    (pc = "returned" /\ call.op = "OnReorg" /\ ~call.error)
        => {b \in db.blocks : b.number >= call.number} = NewBlocks

\* A reorg that completed without a failure, removed a committed block of
\* the old fork and committed the new chain.
C3_Witness ==
    /\ pc = "returned" /\ call.op = "OnReorg" /\ ~call.error
    /\ call.deleted.blocks # {}
    /\ NewBlocks \subseteq db.blocks
    /\ call.deleted.blocks \cap db.blocks = {}

\* C4: a finalized block row is in every later committed store, unchanged.
C4_FinalizedRowsStay ==
    [][\A b \in db.blocks : b.finalized => b \in db'.blocks]_vars

\* C5: an OnReorg whose range holds a finalized block is rejected: it
\* returns with an error reported, having deleted nothing and changed nothing.
C5_ReorgBelowFinalityRejected ==
    (call.op = "OnReorg" /\ FinalizedInRange)
        => (pc = "returned" /\ call.error /\ call.deleted = EmptyStore
            /\ db = call.pre)

\* C6: in every committed store a block's graph is whole or absent: a
\* committed block has every receipt and log derived for it, a block that
\* is not committed has none.
C6_BlockGraphAllOrNothing ==
    \A h \in Headers :
        LET receipts == {Content(r) : r \in db.receipts}
            logs == {Content(l) : l \in db.logs}
        IN  IF Committed(db, h)
            THEN ReceiptsOf(h) \subseteq receipts /\ LogsOf(h) \subseteq logs
            ELSE ReceiptsOf(h) \cap receipts = {} /\ LogsOf(h) \cap logs = {}

\* OnHead of a block with a receipt returned after the insert of the receipt
\* failed with no storage fault, and the block row is not committed.
C6_Witness ==
    /\ pc = "returned" /\ call.op = "OnHead"
    /\ GetReceiptsByHash(call.headers[1]) # << >>
    /\ call.error /\ ~call.fault
    /\ ~Committed(call.pre, call.headers[1])
    /\ ~Committed(db, call.headers[1])

\* C7: OnHead of a header whose block is already committed changes nothing
\* and reports no error.
C7_HeadRedeliveryIsNoOp ==
    (pc = "returned" /\ call.op = "OnHead" /\ ~call.fault
     /\ Committed(call.pre, call.headers[1]))
        => (db = call.pre /\ ~call.error)

C9_ReferentialIntegrity ==
    /\ \A tab \in {db.receipts, db.logs} : \A r \in tab :
        /\ \E b \in db.blocks : b.number = r.block_number
        /\ \E t \in db.transactions : t.hash = r.transaction_hash
    /\ \A t \in db.transactions : \E b \in db.blocks : b.number = t.block_number

\* Inside OnReorg a new block with a receipt was handed to OnHead and
\* rejected, beside committed blocks.
C9_Witness ==
    /\ pc = "reorg" /\ call.error /\ ~call.fault
    /\ Len(call.queue) < Len(call.headers)
    /\ GetReceiptsByHash(call.headers[1]) # << >>
    /\ db.blocks # {}
    /\ db.receipts = {}

\* C10: OnFinal for a number that has no committed block reports an error
\* and leaves the store unchanged.
C10_FinalizeAbsentFails ==
    (pc = "returned" /\ call.op = "OnFinal"
     /\ \A b \in call.pre.blocks : b.number # call.number)
        => (call.error /\ db = call.pre)

\* C11: OnFinal for a block that is committed and already finalized leaves
\* the store and the schema as they are, and reports an error only when a
\* statement met a storage fault.
C11_FinalizeTwiceIsOnce ==
    [][(pc = "idle" /\ call'.op = "OnFinal"
        /\ \E b \in db.blocks : b.number = call'.number /\ b.finalized)
       => (db' = db /\ finalizedColumn' = finalizedColumn
           /\ (call'.error => call'.fault))]_vars

\* OnFinal returned without an error for a block that was finalized before
\* the call.
C11_Witness ==
    /\ pc = "returned" /\ call.op = "OnFinal" /\ ~call.error
    /\ \E b \in call.pre.blocks : b.number = call.number /\ b.finalized
    /\ \E b \in db.blocks : b.number = call.number /\ b.finalized

\* C12: the highest finalized block number of the committed store never
\* decreases.
C12_WatermarkMovesForward ==
    [][LatestFinalized(db') >= LatestFinalized(db)]_vars

\* C13: a GetLatestFinalizedBlock that meets no storage fault returns no
\* error, and returns the highest finalized number of the store, or 0 when
\* no block is finalized.
C13_LatestFinalizedSucceeds ==
    (pc = "returned" /\ call.op = "GetLatestFinalizedBlock" /\ ~call.fault)
        => (~call.error /\ call.value = LatestFinalized(db))

\* C14: a lookup by number or by hash that meets no storage fault returns
\* no error, and returns the committed block with the key, or nothing when
\* there is none.
C14_LookupTellsAbsentFromFailed ==
    /\ (pc = "returned" /\ call.op = "GetBlockByNumber" /\ ~call.fault)
           => (~call.error
               /\ call.block = {b \in db.blocks : b.number = call.number})
    /\ (pc = "returned" /\ call.op = "GetBlockByHash" /\ ~call.fault)
           => (~call.error
               /\ call.block =
                    {b \in db.blocks : b.hash = HeaderHash(call.headers[1])})

\* C15: OnClose returns normally in every state of the engine, and leaves
\* the pool closed.
C15_CloseAlwaysReturns ==
    call.op = "OnClose" => (pc = "returned" /\ p.db = "closed")

\* C16: a callback in which a storage operation failed does not unwind the
\* host process.
C16_StorageFailureNeverCrashes ==
    call.error => pc # "panicked"

\* C17: for every combination of optional header fields OnHead stores a
\* block row in which each optional column is present exactly when the
\* header carries the field, with the value of the field.
C17_OptionalFieldsKept ==
    call.op = "OnHead" =>
        LET h == call.headers[1]
            Kept(col, ptr, str) ==
                IF ptr = {} THEN col = {} ELSE col = {str}
        IN  /\ pc = "returned"
            /\ \E b \in db.blocks :
                /\ b.number = h.number
                /\ Kept(b.base_fee_per_gas, h.BaseFee, BigIntString(h.BaseFee))
                /\ (b.blob_gas_used = {}) = (h.BlobGasUsed = {})
                /\ (b.excess_blob_gas = {}) = (h.ExcessBlobGas = {})
                /\ (b.parent_beacon_block_root = {}) = (h.ParentBeaconRoot = {})
                /\ (b.withdrawals_root = {}) = (h.WithdrawalsHash = {})

\* The log rows of a transaction in the committed store.
StoredLogs(txHash) == {l \in db.logs : l.transaction_hash = txHash}

\* C18: after OnHead of a new block, with no storage fault, the store has
\* exactly one log row for each log of each receipt of the block, with the
\* index the log was emitted with.
C18_LogsKeptByIndex ==
    (pc = "returned" /\ call.op = "OnHead" /\ ~call.fault /\ p.db = "open"
     /\ \A b \in call.pre.blocks :
            b.number # call.number /\ b.hash # HeaderHash(call.headers[1]))
        => LET h == call.headers[1]
               rs == GetReceiptsByHash(h)
           IN  \A i \in 1..Len(rs) :
                /\ Cardinality(StoredLogs(rs[i].TxHash)) = Len(rs[i].Logs)
                /\ {Content(l) : l \in StoredLogs(rs[i].TxHash)}
                      = {Log(h, rs[i], rs[i].Logs[j]) :
                            j \in 1..Len(rs[i].Logs)}

\* The place of a hash in the order of last use.
UsedAt(hash) == CHOOSE i \in 1..Len(recency) : recency[i] = hash

\* C19: the cache never holds more than 32 entries, and an entry leaves it
\* only when a hash that is not cached is added to the full cache, and
\* then it is the entry whose last read or write is the oldest.
C19_CacheBoundedLRU ==
    /\ [](Len(receiptsCache) <= 32)
    /\ [][\A k \in CacheKeys(receiptsCache) \ CacheKeys(receiptsCache') :
            /\ Len(receiptsCache) = 32
            /\ call'.number \notin CacheKeys(receiptsCache)
            /\ call'.number \in CacheKeys(receiptsCache')
            /\ \A j \in CacheKeys(receiptsCache) : UsedAt(k) <= UsedAt(j)]_vars

\* The full cache has evicted hash 2 and still holds hash 1, which was
\* added before hash 2 and read after it.
C19_Witness ==
    /\ Len(receiptsCache) = 32
    /\ 1 \in CacheKeys(receiptsCache)
    /\ 2 \notin CacheKeys(receiptsCache)
    /\ 2 \in {recency[i] : i \in 1..Len(recency)}

\* C20: every GetBlockReceipts returns what getReceipts returns for the
\* hash at that moment, from the cache or not.
C20_CacheIsTransparent ==
    (pc = "returned" /\ call.op = "GetBlockReceipts")
        => call.receipts = getReceipts(fetchable, call.number)

\* A call for the last hash of the chain was answered from the full cache.
C20_Witness ==
    /\ pc = "returned" /\ call.op = "GetBlockReceipts"
    /\ call.hit /\ call.receipts # {}
    /\ call.number = MaxHashes
    /\ Len(receiptsCache) = 32

\* The rows of a store with a block number below n, table by table
\* (access_lists has no block number: all its rows).
Below(store, n) ==
    [blocks |-> {b \in store.blocks : b.number < n},
     transactions |-> {r \in store.transactions : r.block_number < n},
     receipts |-> {r \in store.receipts : r.block_number < n},
     logs |-> {r \in store.logs : r.block_number < n},
     state_changes |-> {r \in store.state_changes : r.block_number < n},
     access_lists |-> store.access_lists]

\* C22: from the start of an OnReorg to its return, with or without a
\* failure, the committed rows below the pivot are the ones committed
\* before the call.
C22_ReorgKeepsRowsBelowPivot ==
    (call.op = "OnReorg" /\ p.db = "open")
        => Below(db, call.number) = Below(call.pre, call.number)

\* An OnReorg returned after its commit removed a block from the pivot on,
\* beside a committed block below the pivot.
C22_Witness ==
    /\ pc = "returned" /\ call.op = "OnReorg"
    /\ \E b \in call.pre.blocks : b.number < call.number
    /\ \E b \in call.pre.blocks : b.number >= call.number /\ b \notin db.blocks

\* C23: no two committed block rows share a number or a hash, and an OnHead
\* for a header whose number or hash is already committed reports an error
\* and leaves the store as it was.
C23_BlockKeysUnique ==
    /\ \A b1, b2 \in db.blocks :
           (b1.number = b2.number \/ b1.hash = b2.hash) => b1 = b2
    /\ (/\ pc = "returned" /\ call.op = "OnHead" /\ p.db = "open"
        /\ \E b \in call.pre.blocks :
               \/ b.number = call.number
               \/ b.hash = HeaderHash(call.headers[1]))
           => (call.error /\ db = call.pre)

\* An OnHead for a number committed with another hash failed without any
\* storage fault.
C23_Witness ==
    /\ pc = "returned" /\ call.op = "OnHead" /\ p.db = "open"
    /\ call.error /\ ~call.fault
    /\ \E b \in db.blocks :
           b.number = call.number /\ b.hash # HeaderHash(call.headers[1])
    /\ Cardinality(db.blocks) >= 2

\* The new headers an OnReorg past its deletes has handed to OnHead so far,
\* in that order.
Handed ==
    SubSeq(call.headers, 1, Len(call.headers) - Len(call.queue))

\* C24: the new headers an OnReorg has handed to OnHead so far are in
\* ascending order of block number, whatever the order of newHeaders.
C24_NewHeadersAscending ==
    pc = "reorg"
        => \A i, j \in 1..Len(Handed) :
               i < j => Handed[i].number < Handed[j].number

\* The rows of a store with a block number from n on, table by table
\* (access_lists: the rows of the transactions from n on).
From(store, n) ==
    [blocks |-> {b \in store.blocks : b.number >= n},
     transactions |-> {r \in store.transactions : r.block_number >= n},
     receipts |-> {r \in store.receipts : r.block_number >= n},
     logs |-> {r \in store.logs : r.block_number >= n},
     state_changes |-> {r \in store.state_changes : r.block_number >= n},
     access_lists |->
         {a \in store.access_lists :
             \E t \in store.transactions :
                 t.hash = a.transaction_hash /\ t.block_number >= n}]

\* C25: once the deletes of an OnReorg have succeeded, the rows its
\* transaction has removed are exactly the rows from the pivot on, the
\* pivot being the lowest number of oldHeaders, whatever their order and
\* number.
C25_DeletesExactlyFromPivot ==
    pc \in {"reorg", "blocked"} => call.deleted = From(call.pre, call.number)

\* The deletes of an OnReorg removed two blocks and kept a lower one.
C25_Witness ==
    /\ pc = "reorg"
    /\ Cardinality(call.deleted.blocks) >= 2
    /\ \E b \in call.pre.blocks : b.number < call.number

\* C26: an OnFinal leaves every table but blocks as it was, and in blocks
\* every row of another number as it was; the row of its number keeps its
\* other columns, and keeps its flag too when the call fails.
C26_FinalTouchesOneFlag ==
    (pc = "returned" /\ call.op = "OnFinal")
        => /\ \A t \in DOMAIN db \ {"blocks"} : db[t] = call.pre[t]
           /\ {b \in db.blocks : b.number # call.number}
                  = {b \in call.pre.blocks : b.number # call.number}
           /\ {[b EXCEPT !.finalized = FALSE] : b \in db.blocks}
                  = {[b EXCEPT !.finalized = FALSE] : b \in call.pre.blocks}
           /\ call.error => db = call.pre

\* An OnFinal set the flag of its block, beside a lower and a higher
\* block that are not finalized.
C26_Witness ==
    /\ pc = "returned" /\ call.op = "OnFinal" /\ ~call.error
    /\ \E b \in db.blocks : b.number = call.number /\ b.finalized
    /\ \E b \in call.pre.blocks : b.number = call.number /\ ~b.finalized
    /\ \E b \in db.blocks : b.number < call.number /\ ~b.finalized
    /\ \E b \in db.blocks : b.number > call.number /\ ~b.finalized

\* C27: no step changes the hash stored at a block number; a block leaves
\* the store only in an OnReorg; and an OnHead for a number committed with
\* another hash leaves the whole store as it was.
C27_NoUpdateInPlace ==
    [][/\ \A b \in db.blocks : \A c \in db'.blocks :
              b.number = c.number => b.hash = c.hash
       /\ (\E b \in db.blocks : \A c \in db'.blocks : c.hash # b.hash)
              => call'.op = "OnReorg"
       /\ (/\ pc = "idle" /\ call'.op = "OnHead"
           /\ \E b \in db.blocks :
                  /\ b.number = call'.number
                  /\ b.hash # HeaderHash(call'.headers[1]))
              => db' = db]_vars

\* An OnHead for a number committed with another hash returned, and the
\* row of that number is the one committed before it.
C27_Witness ==
    /\ pc = "returned" /\ call.op = "OnHead" /\ p.db = "open"
    /\ db = call.pre
    /\ \E b \in db.blocks :
           b.number = call.number /\ b.hash # HeaderHash(call.headers[1])

\* C28: a DeleteBlockAndDescendants(K) called by itself that returns an
\* error has deleted no row of any table; one that returns none has
\* deleted the rows from K on and no other.
C28_DeleteRangeAllOrNothing ==
    (pc = "returned" /\ call.op = "DeleteBlockAndDescendants")
        => IF call.error THEN db = call.pre
           ELSE /\ From(db, call.number) = EmptyStore
                /\ Below(db, call.number) = Below(call.pre, call.number)

\* A DeleteBlockAndDescendants(K) failed on a storage fault with blocks
\* from K on in the store, and they are still there.
C28_Witness ==
    /\ pc = "returned" /\ call.op = "DeleteBlockAndDescendants"
    /\ call.error
    /\ \E b \in db.blocks : b.number >= call.number
    /\ \E b \in db.blocks : b.number < call.number

\* C29: an OnHead for a head whose hash is in the receipt cache does not
\* ask the chain for its receipts: it asks only on a cache miss.
C29_CachedHeadNotFetched ==
    (/\ pc = "returned" /\ call.op = "OnHead"
     /\ HeaderHash(call.headers[1]) \in CacheKeys(receiptsCache))
        => ~call.fetched

\* C30: during an OnReorg no nested OnHead waits for a lock that the
\* reorg transaction, still open, holds; the call goes on to its return.
C30_NoSelfDeadlock == pc # "blocked"

\* C31: an OnHead or OnReorg that has returned has no transaction of its
\* own left open, on any path: success, failed insert, failed delete,
\* failed commit.
C31_NoTransactionLeftOpen ==
    (pc \in {"idle", "returned", "panicked"}) => call.open = 0

\* An OnReorg whose deletes succeeded and whose commit failed has
\* returned, the rows it had deleted still in the store.
C31_Witness ==
    /\ pc = "returned" /\ call.op = "OnReorg"
    /\ call.error /\ call.fault
    /\ call.deleted.blocks # {}
    /\ db = call.pre

\* C32: on an engine created without a database, OnInit, OnHead, OnFinal
\* and OnReorg return normally: no panic, no error, the store untouched.
C32_NoDatabaseDisablesIndexing ==
    (p.db = "none" /\ call.op \in {"OnInit", "OnHead", "OnFinal", "OnReorg"})
        => /\ pc # "panicked"
           /\ ~call.error
           /\ db = call.pre

\* C34: a start on a store on which initSchema has already run, with no
\* storage fault, succeeds and leaves the objects of the schema as they
\* were.
C34_SchemaInitIdempotent ==
    [][(/\ pc = "idle" /\ call'.op = "NewDB" /\ ~call'.fault
        /\ Installed \subseteq schema)
          => (~call'.error /\ schema' = schema)]_vars

====
